---- MODULE Spec2Model ----
(***************************************************************************)
(* Authentication / session lifecycle of nestjs-api-starter:               *)
(* AuthService (login, register, refresh, logout), UsersService            *)
(* (createUser, setRefreshTokenHash, clearRefreshTokenHash), the users     *)
(* repository, the jwt configuration, POST /auth/logout and the GET routes *)
(* behind the Auth Gate (/auth/me, /users/me, /users/:id).                 *)
(*                                                                         *)
(* Every service method is an async function: it is split at its awaits   *)
(* into steps, and steps of different calls interleave.  Each call runs in *)
(* a slot of `calls`; a finished call keeps its result in the slot until   *)
(* the slot is used for the next call.                                     *)
(*                                                                         *)
(* Specifications: Spec (the four operations and POST /auth/logout),       *)
(* GateSpec and RolesSpec (the GET routes behind the guards), ConfigSpec   *)
(* (deployments with other environments), FaultSpec (rows deleted under    *)
(* calls in flight), SessionSpec (the session of a registered user) and    *)
(* CreateSpec (register bodies naming other columns).                      *)
(***************************************************************************)
EXTENDS Integers, Sequences, FiniteSets, TLC

(* ---------------------------------------------------------------------- *)
(* Bounds of the model                                                     *)
(* ---------------------------------------------------------------------- *)
MaxTime == 2
MaxCalls == 3
RefreshTTL == 2
AccessTTL == 1

(* ---------------------------------------------------------------------- *)
(* Program constants                                                       *)
(* ---------------------------------------------------------------------- *)
\* bcrypt hashes only the first 72 bytes of its input
BcryptMaxBytes == 72

Slots == {1, 2}
IdOrder == <<"u1", "u2">>
UserIds == {IdOrder[i] : i \in 1..Len(IdOrder)}
Usernames == {"alice", "bob"}
Emails == {"a@x", "b@x"}
Passwords == {"pw1", "pw2"}
RegisterPasswords == {"pw1"}
DefaultRole == "CUSTOMER"

VARIABLES
  env,       \* process.env at start-up: each variable is <<>> (unset) or <<value>>
  users,     \* the User table: id -> row, defined on the ids that exist
  now,       \* the clock, in the seconds jsonwebtoken stamps iat/exp with
  issued,    \* history: every refresh token generateTokenPair has produced
  calls,     \* the calls in flight or finished, one per slot
  ncalls,    \* number of operations started so far
  loggedOut  \* history: users logged out and not logged in (or registered) since

vars == <<env, users, now, issued, calls, ncalls, loggedOut>>

(* ---------------------------------------------------------------------- *)
(* Configuration                                                           *)
(* ---------------------------------------------------------------------- *)
\* the environments a deployment is started with: nothing set (NoEnv), and the four
\* JWT variables set, both secrets to the same value and both lifetimes to
\* other values than the defaults
NoEnv ==
  [JWT_SECRET |-> <<>>, JWT_ACCESS_TOKEN_EXPIRES_IN |-> <<>>,
   JWT_REFRESH_SECRET |-> <<>>, JWT_REFRESH_TOKEN_EXPIRES_IN |-> <<>>]
Envs ==
  { NoEnv,
    [JWT_SECRET |-> <<"s3cret">>,
     JWT_ACCESS_TOKEN_EXPIRES_IN |-> <<AccessTTL + 1>>,
     JWT_REFRESH_SECRET |-> <<"s3cret">>,
     JWT_REFRESH_TOKEN_EXPIRES_IN |-> <<RefreshTTL + 1>>] }

\* a || b and a ?? b on an optional value
OrElse(opt, default) == IF opt = <<>> THEN default ELSE opt[1]

\* the jwt object the configuration factory builds from process.env
JwtConfig ==
  [secret           |-> OrElse(env.JWT_SECRET, "your-secret-key"),
   expiresIn        |-> OrElse(env.JWT_ACCESS_TOKEN_EXPIRES_IN, AccessTTL),
   refreshSecret    |-> OrElse(env.JWT_REFRESH_SECRET, "your-refresh-secret-key"),
   refreshExpiresIn |-> OrElse(env.JWT_REFRESH_TOKEN_EXPIRES_IN, RefreshTTL)]

\* configService.get(key): <<value>>, or <<>> (undefined) for a path the
\* configuration does not hold
ConfigGet(key) ==
  IF key = "jwt.secret" THEN <<JwtConfig.secret>>
  ELSE IF key = "jwt.expiresIn" THEN <<JwtConfig.expiresIn>>
  ELSE IF key = "jwt.refreshSecret" THEN <<JwtConfig.refreshSecret>>
  ELSE IF key = "jwt.refreshExpiresIn" THEN <<JwtConfig.refreshExpiresIn>>
  ELSE <<>>

AccessSecret == ConfigGet("jwt.secret")[1]
RefreshSecret == ConfigGet("jwt.refreshSecret")[1]

(* ---------------------------------------------------------------------- *)
(* Strings.  A string is a sequence of segments [v |-> content, n |-> its  *)
(* length in bytes]; two strings are equal iff their segments are.         *)
(* ---------------------------------------------------------------------- *)
Seg(v, n) == [v |-> v, n |-> n]

RECURSIVE Offset(_, _)
\* byte offset at which segment i of string s starts
Offset(s, i) == IF i <= 1 THEN 0 ELSE Offset(s, i - 1) + s[i - 1].n

\* The first maxBytes bytes of s.  A segment cut by the limit is kept whole:
\* the bytes of it that remain are taken to distinguish its values.
Truncate(s, maxBytes) ==
  LET keep == {i \in 1..Len(s) : Offset(s, i) < maxBytes}
  IN  SubSeq(s, 1, Cardinality(keep))

\* a password as typed: MinLength(6), well below the bcrypt limit
PasswordString(p) == <<Seg(p, 8)>>

(* ---------------------------------------------------------------------- *)
(* bcrypt                                                                  *)
(* ---------------------------------------------------------------------- *)
NullHash == [alg |-> "null", pre |-> <<>>]

\* bcrypt.hash(data, 10): a salted one-way hash of the first 72 bytes of data
BcryptHash(s) == [alg |-> "bcrypt", pre |-> Truncate(s, BcryptMaxBytes)]

\* bcrypt.compare(data, hash)
BcryptCompare(s, h) == h.alg = "bcrypt" /\ h.pre = Truncate(s, BcryptMaxBytes)

(* ---------------------------------------------------------------------- *)
(* JSON web tokens                                                         *)
(* ---------------------------------------------------------------------- *)
\* jwtService.sign writing the default role for the role claim
JwtSign_RoleIsDefault(payload, secret, ttl, t) ==
  [sub |-> payload.sub, username |-> payload.username, email |-> payload.email,
   role |-> DefaultRole, iat |-> t, exp |-> t + ttl, sig |-> secret]

\* jwtService.sign(payload, {secret, expiresIn}) at time t
JwtSign(payload, secret, ttl, t) ==
  [sub |-> payload.sub, username |-> payload.username, email |-> payload.email,
   role |-> payload.role, iat |-> t, exp |-> t + ttl, sig |-> secret]

\* a token no secret of this deployment has signed
ForgedToken ==
  [sub |-> "u1", username |-> "alice", email |-> "a@x", role |-> DefaultRole,
   iat |-> 0, exp |-> MaxTime + RefreshTTL + 1, sig |-> "forged"]

\* jwtService.verify taking a token for valid up to and including exp
JwtVerify_ValidAtExp(token, secret, t) == token.sig = secret /\ t <= token.exp

\* jwtService.verify that does not look at the signature
JwtVerify_AnySignature(token, secret, t) == t < token.exp

\* jwtService.verify(token, {secret}) at time t: TRUE iff it returns the payload
JwtVerify(token, secret, t) == token.sig = secret /\ t < token.exp

\* the payload jwtService.verify returns for a token it accepts: the claims
\* that were signed, with iat and exp
JwtPayload(token) ==
  [sub |-> token.sub, username |-> token.username, email |-> token.email,
   role |-> token.role, iat |-> token.iat, exp |-> token.exp]

\* The compact serialisation base64url(header).base64url(payload).signature
\* that is handed to bcrypt, as segments with their lengths in bytes.  The
\* header {"alg":"HS256","typ":"JWT"} and its dot take 37 bytes.  The payload
\* starts with {"sub":"<id>", so the sub claim begins at byte 37 and ends
\* beyond byte 72 (35 base64 characters carry 26 bytes: {"sub":" and 18
\* characters of the id); jsonwebtoken appends iat and exp after the claims.
\* The lengths of the later segments vary with the values and are nominal.
JwtCompact(token) ==
  << Seg("HS256.JWT", 37), Seg(token.sub, 61), Seg(token.username, 24),
     Seg(token.email, 24), Seg(token.role, 22), Seg(token.iat, 19),
     Seg(token.exp, 19), Seg(token.sig, 44) >>

(* ---------------------------------------------------------------------- *)
(* UsersRepository                                                         *)
(* ---------------------------------------------------------------------- *)
\* an optional row is a sequence of length 0 or 1
FindById(id) == IF id \in DOMAIN users THEN <<users[id]>> ELSE <<>>

FindByUsername(username) ==
  LET hit == {id \in DOMAIN users : users[id].username = username}
  IN  IF hit = {} THEN <<>> ELSE <<users[CHOOSE id \in hit : TRUE]>>

FindByEmail(email) ==
  LET hit == {id \in DOMAIN users : users[id].email = email}
  IN  IF hit = {} THEN <<>> ELSE <<users[CHOOSE id \in hit : TRUE]>>

(* ---------------------------------------------------------------------- *)
(* Calls                                                                   *)
(* ---------------------------------------------------------------------- *)
NoResult == [status |-> "none", msg |-> "", tokens |-> <<>>]
Ok(pairs) == [status |-> "ok", msg |-> "", tokens |-> pairs]
Err(kind, msg) == [status |-> kind, msg |-> msg, tokens |-> <<>>]

IdleCall ==
  [op |-> "idle", pc |-> "done", username |-> "", password |-> "",
   email |-> "", token |-> <<>>, userId |-> <<>>, user |-> <<>>,
   tokens |-> <<>>, invoked |-> <<>>, credOk |-> FALSE, result |-> NoResult,
   route |-> "", header |-> <<>>, body |-> <<>>, extra |-> <<>>]

\* a new call takes the lowest slot that holds no call in flight (the slots
\* are interchangeable, so this loses no behaviour)
CanStart(s) ==
  /\ calls[s].pc = "done"
  /\ \A r \in Slots : r < s => calls[r].pc # "done"
  /\ ncalls < MaxCalls

\* A step that reads the clock happens at some time t not before the last
\* reading; the clock is only ever observed by these steps, so time that
\* passes between them is folded into the next reading.
Time == 0..MaxTime
At(t) == t >= now /\ now' = t

Init ==
  /\ env = NoEnv
  /\ users = <<>>
  /\ now = 0
  /\ issued = {}
  /\ calls = [s \in Slots |-> IdleCall]
  /\ ncalls = 0
  /\ loggedOut = {}

(* ---------------------------------------------------------------------- *)
(* UsersService / repository writes                                        *)
(* ---------------------------------------------------------------------- *)
\* usersRepository.update(id, data) succeeds only on an existing row
RowExists(id) == id \in DOMAIN users

\* setRefreshTokenHash storing the token as it is
SetRefreshTokenHash_Plain(userId, refreshToken) ==
  [users EXCEPT ![userId].refreshTokenHash =
                   [alg |-> "plain", pre |-> JwtCompact(refreshToken)]]

\* UsersService.setRefreshTokenHash(userId, refreshToken): the table after it
SetRefreshTokenHash(userId, refreshToken) ==
  [users EXCEPT ![userId].refreshTokenHash = BcryptHash(JwtCompact(refreshToken))]

\* UsersService.clearRefreshTokenHash(userId): the table after it
ClearRefreshTokenHash(userId) ==
  [users EXCEPT ![userId].refreshTokenHash = NullHash]

\* the ids given out so far: those of the rows in the table and those of
\* deleted rows, which the tokens issued at their creation still name
UsedIds == DOMAIN users \cup ({tk.sub : tk \in issued} \cap UserIds)

\* the id the database gives the next created row: one never given before
NextId == IdOrder[CHOOSE i \in 1..Len(IdOrder) :
                    /\ IdOrder[i] \notin UsedIds
                    /\ \A j \in 1..(i - 1) : IdOrder[j] \in UsedIds]

\* the unique indexes of the User table on email and username
UniqueViolation(email, username) ==
  \E id \in DOMAIN users :
     users[id].email = email \/ users[id].username = username

(* ---------------------------------------------------------------------- *)
(* AuthService helpers                                                     *)
(* ---------------------------------------------------------------------- *)
ExcludePassword(user) ==
  [id |-> user.id, username |-> user.username, email |-> user.email,
   refreshTokenHash |-> user.refreshTokenHash, role |-> user.role,
   isActive |-> user.isActive]

\* generateTokenPair with the username taken for the subject
GenerateTokenPair_SubIsUsername(user, t) ==
  LET payload == [sub |-> user.username, username |-> user.username,
                  email |-> user.email, role |-> user.role]
  IN  [accessToken  |-> JwtSign(payload, AccessSecret,
                  OrElse(ConfigGet("jwt.accessTokenExpiresIn"), AccessTTL), t),
       refreshToken |-> JwtSign(payload, RefreshSecret,
                  OrElse(ConfigGet("jwt.refreshTokenExpiresIn"), RefreshTTL), t)]

\* AuthService.generateTokenPair(user), called at time t
GenerateTokenPair(user, t) ==
  LET payload == [sub |-> user.id, username |-> user.username,
                  email |-> user.email, role |-> user.role]
  IN  [accessToken  |-> JwtSign(payload, AccessSecret,
                  OrElse(ConfigGet("jwt.accessTokenExpiresIn"), AccessTTL), t),
       refreshToken |-> JwtSign(payload, RefreshSecret,
                  OrElse(ConfigGet("jwt.refreshTokenExpiresIn"), RefreshTTL), t)]

\* validateCredentials without the isActive check
ValidateCredentials_NoActiveCheck(user, password) ==
  IF user = <<>> \/ ~BcryptCompare(PasswordString(password), user[1].password)
  THEN "Invalid credentials"
  ELSE "ok"

\* validateCredentials with the isActive check made before the password check
ValidateCredentials_ActiveFirst(user, password) ==
  IF user = <<>> THEN "Invalid credentials"
  ELSE IF ~user[1].isActive THEN "Account is inactive"
  ELSE IF ~BcryptCompare(PasswordString(password), user[1].password)
  THEN "Invalid credentials"
  ELSE "ok"

\* AuthService.validateCredentials on the row read by getUserByUsername:
\* "ok" or the message of the UnauthorizedException
ValidateCredentials(user, password) ==
  IF user = <<>> \/ ~BcryptCompare(PasswordString(password), user[1].password)
  THEN "Invalid credentials"
  ELSE IF ~user[1].isActive THEN "Account is inactive" ELSE "ok"

\* the checks of refresh without the isActive check
RefreshChecks_NoActiveCheck(user, refreshToken) ==
  /\ user # <<>>
  /\ user[1].refreshTokenHash # NullHash
  /\ BcryptCompare(JwtCompact(refreshToken), user[1].refreshTokenHash)

\* the checks of AuthService.refresh on the row read by getFindById
RefreshChecks(user, refreshToken) ==
  /\ user # <<>>
  /\ user[1].isActive
  /\ user[1].refreshTokenHash # NullHash
  /\ BcryptCompare(JwtCompact(refreshToken), user[1].refreshTokenHash)

\* what jwtService.verify throws when it does not return the payload
JwtVerifyError(token, secret) ==
  IF token.sig # secret THEN Err("JsonWebTokenError", "invalid signature")
  ELSE Err("TokenExpiredError", "jwt expired")

\* a catch block of refresh that throws on what it caught
RefreshCatch_Rethrow(thrown) == thrown

\* the catch block of refresh: whatever was thrown inside the try block
\* becomes UnauthorizedException 'Invalid refresh token'
RefreshCatch(thrown) == Err("Unauthorized", "Invalid refresh token")

\* the call in slot s returns or throws: its locals are gone, its arguments
\* and its outcome stay on record
Finish(s, result) ==
  calls' = [calls EXCEPT ![s].pc = "done", ![s].user = <<>>,
                         ![s].tokens = <<>>, ![s].result = result]

(* ---------------------------------------------------------------------- *)
(* AuthService.login                                                       *)
(* ---------------------------------------------------------------------- *)
\* login(dto) up to the row returned by getUserByUsername
LoginStart(s, username, password) ==
  /\ CanStart(s)
  /\ calls' = [calls EXCEPT ![s] =
                 [IdleCall EXCEPT !.op = "login", !.pc = "check",
                                  !.username = username, !.password = password,
                                  !.user = FindByUsername(username)]]
  /\ ncalls' = ncalls + 1
  /\ UNCHANGED <<env, users, now, issued, loggedOut>>

\* bcrypt.compare, the isActive check and generateAuthResponseWithTokens
LoginCheck(s, t) ==
  LET c == calls[s]
      verdict == ValidateCredentials(c.user, c.password)
      pair == GenerateTokenPair(ExcludePassword(c.user[1]), t)
  IN  /\ c.op = "login" /\ c.pc = "check"
      /\ At(t)
      /\ IF verdict # "ok"
         THEN /\ Finish(s, Err("Unauthorized", verdict))
              /\ UNCHANGED issued
         ELSE /\ calls' = [calls EXCEPT ![s].pc = "write", ![s].tokens = <<pair>>]
              /\ issued' = issued \cup {pair.refreshToken}
      /\ UNCHANGED <<env, users, ncalls, loggedOut>>

\* setRefreshTokenHash(user.id, result.refreshToken), then return result
LoginWrite(s) ==
  LET c == calls[s]
  IN  /\ c.op = "login" /\ c.pc = "write"
      /\ IF RowExists(c.user[1].id)
         THEN /\ users' = SetRefreshTokenHash(c.user[1].id, c.tokens[1].refreshToken)
              /\ Finish(s, Ok(c.tokens))
              /\ loggedOut' = loggedOut \ {c.user[1].id}
         ELSE /\ Finish(s, Err("Error", "Record to update not found"))
              /\ UNCHANGED <<users, loggedOut>>
      /\ UNCHANGED <<env, now, issued, ncalls>>

(* ---------------------------------------------------------------------- *)
(* AuthService.refresh                                                     *)
(* ---------------------------------------------------------------------- *)
\* jwtService.verify with the refresh secret, then getFindById(payload.sub)
RefreshStart(s, refreshToken, t) ==
  /\ CanStart(s)
  /\ At(t)
  /\ calls' = [calls EXCEPT ![s] =
                 IF JwtVerify(refreshToken, RefreshSecret, t)
                 THEN [IdleCall EXCEPT !.op = "refresh", !.pc = "check",
                                       !.token = <<refreshToken>>,
                                       !.user = FindById(refreshToken.sub)]
                 ELSE [IdleCall EXCEPT !.op = "refresh", !.pc = "done",
                                       !.token = <<refreshToken>>,
                                       !.result = RefreshCatch(
                                          JwtVerifyError(refreshToken,
                                                         RefreshSecret))]]
  /\ ncalls' = ncalls + 1
  /\ UNCHANGED <<env, users, issued, loggedOut>>

\* the checks of refresh, then a pair made from the claims of the presented
\* token instead of the loaded user
RefreshCheck_ClaimsOfToken(s, t) ==
  LET c == calls[s]
      pair == GenerateTokenPair([id |-> c.token[1].sub,
                                 username |-> c.token[1].username,
                                 email |-> c.token[1].email,
                                 role |-> c.token[1].role], t)
  IN  /\ c.op = "refresh" /\ c.pc = "check"
      /\ At(t)
      /\ IF ~RefreshChecks(c.user, c.token[1])
         THEN /\ Finish(s, RefreshCatch(Err("Unauthorized",
                                             "Invalid refresh token")))
              /\ UNCHANGED issued
         ELSE /\ calls' = [calls EXCEPT ![s].pc = "write", ![s].tokens = <<pair>>]
              /\ issued' = issued \cup {pair.refreshToken}
      /\ UNCHANGED <<env, users, ncalls, loggedOut>>

\* the user and stored-hash checks, then generateTokenPair
RefreshCheck(s, t) ==
  LET c == calls[s]
      pair == GenerateTokenPair(ExcludePassword(c.user[1]), t)
  IN  /\ c.op = "refresh" /\ c.pc = "check"
      /\ At(t)
      /\ IF ~RefreshChecks(c.user, c.token[1])
         THEN /\ Finish(s, RefreshCatch(Err("Unauthorized",
                                             "Invalid refresh token")))
              /\ UNCHANGED issued
         ELSE /\ calls' = [calls EXCEPT ![s].pc = "write", ![s].tokens = <<pair>>]
              /\ issued' = issued \cup {pair.refreshToken}
      /\ UNCHANGED <<env, users, ncalls, loggedOut>>

\* rotate: setRefreshTokenHash(user.id, tokens.refreshToken), return tokens;
\* whatever is thrown inside the try block becomes 'Invalid refresh token'
RefreshWrite(s) ==
  LET c == calls[s]
  IN  /\ c.op = "refresh" /\ c.pc = "write"
      /\ IF RowExists(c.user[1].id)
         THEN /\ users' = SetRefreshTokenHash(c.user[1].id, c.tokens[1].refreshToken)
              /\ Finish(s, Ok(c.tokens))
         ELSE /\ Finish(s, RefreshCatch(Err("Error",
                                             "Record to update not found")))
              /\ UNCHANGED users
      /\ UNCHANGED <<env, now, issued, ncalls, loggedOut>>

(* ---------------------------------------------------------------------- *)
(* AuthService.register                                                    *)
(* ---------------------------------------------------------------------- *)
\* isExitUser throwing for the username before the email
IsExitUser_UsernameFirst(email, username) ==
  IF FindByUsername(username) # <<>> THEN "Username is already taken"
  ELSE IF FindByEmail(email) # <<>> THEN "Email is already registered"
  ELSE "ok"

\* isExitUser looking the email up only
IsExitUser_EmailOnly(email, username) ==
  IF FindByEmail(email) # <<>> THEN "Email is already registered" ELSE "ok"

\* isExitUser(dto.email, dto.username): both lookups, email reported first
IsExitUser(email, username) ==
  IF FindByEmail(email) # <<>> THEN "Email is already registered"
  ELSE IF FindByUsername(username) # <<>> THEN "Username is already taken"
  ELSE "ok"

\* register(dto) up to the end of isExitUser; extra holds the properties of
\* dto other than email, username and password (<<>>: none)
RegisterStartWith(s, email, username, password, extra) ==
  LET verdict == IsExitUser(email, username)
      c == [IdleCall EXCEPT !.op = "register", !.email = email,
                            !.username = username, !.password = password,
                            !.extra = extra]
  IN  /\ CanStart(s)
      /\ calls' = [calls EXCEPT ![s] =
                     IF verdict # "ok"
                     THEN [c EXCEPT !.pc = "done",
                                    !.result = Err("BadRequest", verdict)]
                     ELSE [c EXCEPT !.pc = "create"]]
      /\ ncalls' = ncalls + 1
      /\ UNCHANGED <<env, users, now, issued, loggedOut>>

\* register called with a dto of email, username and password only
RegisterStart(s, email, username, password) ==
  RegisterStartWith(s, email, username, password, <<>>)

\* the row UsersService.createUser hands to usersRepository.create; role,
\* isActive and refreshTokenHash take the defaults of the table
NewUser(id, email, username, hashedPassword) ==
  [id |-> id, username |-> username, email |-> email,
   password |-> hashedPassword, refreshTokenHash |-> NullHash,
   role |-> DefaultRole, isActive |-> TRUE]

\* { ...dto, password: hashedPassword }: what register passes to createUser
RegisterData(c, hashedPassword) ==
  [f \in {"email", "username", "password"} \cup DOMAIN c.extra |->
     IF f = "password" THEN hashedPassword
     ELSE IF f = "email" THEN c.email
     ELSE IF f = "username" THEN c.username
     ELSE c.extra[f]]

\* createUser handing all of data to usersRepository.create
SafeData_AllOfData(data) == data

\* safeData of createUser: the listed properties of data and no other
\* (firstName and lastName are copied too; the rows of the model leave
\* them out)
SafeData(data) ==
  [email |-> data.email, username |-> data.username, password |-> data.password]

\* usersRepository.create(data) for the row of id `id`: the columns data
\* names take its values, the others the defaults of the table
CreatedRow(id, data) ==
  LET defaults == NewUser(id, data.email, data.username, data.password)
  IN  [f \in DOMAIN defaults |->
         IF f \in DOMAIN data THEN data[f] ELSE defaults[f]]

\* bcrypt.hash(dto.password), UsersService.createUser, then
\* generateAuthResponseWithTokens
RegisterCreate(s, t) ==
  LET c == calls[s]
      row == CreatedRow(NextId,
                SafeData(RegisterData(c, BcryptHash(PasswordString(c.password)))))
      pair == GenerateTokenPair(ExcludePassword(row), t)
  IN  /\ c.op = "register" /\ c.pc = "create"
      /\ At(t)
      /\ IF FindByEmail(c.email) # <<>>
         THEN /\ Finish(s, Err("Error", "User already exists"))
              /\ UNCHANGED <<users, issued>>
         ELSE IF UniqueViolation(c.email, c.username)
         THEN /\ Finish(s, Err("Error", "Unique constraint failed"))
              /\ UNCHANGED <<users, issued>>
         ELSE /\ users' = (row.id :> row) @@ users
              /\ calls' = [calls EXCEPT ![s].pc = "write", ![s].user = <<row>>,
                                        ![s].tokens = <<pair>>]
              /\ issued' = issued \cup {pair.refreshToken}
      /\ UNCHANGED <<env, ncalls, loggedOut>>

\* setRefreshTokenHash(user.id, result.refreshToken), then return result
RegisterWrite(s) ==
  LET c == calls[s]
  IN  /\ c.op = "register" /\ c.pc = "write"
      /\ IF RowExists(c.user[1].id)
         THEN /\ users' = SetRefreshTokenHash(c.user[1].id, c.tokens[1].refreshToken)
              /\ Finish(s, Ok(c.tokens))
              /\ loggedOut' = loggedOut \ {c.user[1].id}
         ELSE /\ Finish(s, Err("Error", "Record to update not found"))
              /\ UNCHANGED <<users, loggedOut>>
      /\ UNCHANGED <<env, now, issued, ncalls>>

(* ---------------------------------------------------------------------- *)
(* AuthService.logout                                                      *)
(* ---------------------------------------------------------------------- *)
\* logout(userId): clearRefreshTokenHash(userId); userId is <<id>>, or <<>>
\* when the caller passes undefined
Logout(s, userId) ==
  /\ CanStart(s)
  /\ LET c == [IdleCall EXCEPT !.op = "logout", !.userId = userId]
     IN  IF userId # <<>> /\ RowExists(userId[1])
         THEN /\ users' = ClearRefreshTokenHash(userId[1])
              /\ calls' = [calls EXCEPT ![s] = [c EXCEPT !.result = Ok(<<>>)]]
              /\ loggedOut' = loggedOut \cup {userId[1]}
         ELSE /\ UNCHANGED <<users, loggedOut>>
              /\ calls' = [calls EXCEPT ![s] =
                   [c EXCEPT !.result = Err("Error", "Record to update not found")]]
  /\ ncalls' = ncalls + 1
  /\ UNCHANGED <<env, now, issued>>

(* ---------------------------------------------------------------------- *)
(* Auth Gate and POST /auth/logout                                         *)
(* ---------------------------------------------------------------------- *)
\* JwtStrategy.validate without the isActive check
JwtStrategyValidate_NoActiveCheck(bearer, t) ==
  IF bearer = <<>> \/ ~JwtVerify(bearer[1], AccessSecret, t) THEN <<>>
  ELSE LET user == FindById(bearer[1].sub)
       IN  IF user = <<>> THEN <<>>
           ELSE <<[id |-> user[1].id, email |-> user[1].email,
                   role |-> user[1].role]>>

\* JwtStrategy: verify the bearer token with the access secret, load the
\* user named by its subject, reject an absent or inactive user; the result
\* is the identity attached to the request, or <<>> for 401
JwtStrategyValidate(bearer, t) ==
  IF bearer = <<>> \/ ~JwtVerify(bearer[1], AccessSecret, t) THEN <<>>
  ELSE LET user == FindById(bearer[1].sub)
       IN  IF user = <<>> \/ ~user[1].isActive THEN <<>>
           ELSE <<[id |-> user[1].id, email |-> user[1].email,
                   role |-> user[1].role]>>

\* JwtAuthGuard.canActivate: a route marked @Public() is admitted at once,
\* with no identity attached; any other route goes through the strategy
JwtAuthGuard(route, bearer, t) ==
  IF route.public THEN [admit |-> TRUE, user |-> <<>>]
  ELSE LET user == JwtStrategyValidate(bearer, t)
       IN  [admit |-> user # <<>>, user |-> user]

\* @CurrentUser('id'): request.user?.id
CurrentUserId(user) == IF user = <<>> THEN <<>> ELSE <<user[1].id>>

\* the decorators of AuthController.logout
LogoutRoute == [public |-> TRUE, guards |-> <<"JwtAuthGuard">>]

\* POST /auth/logout carrying `bearer` (<<>>: no Authorization header).  The
\* route is public, so the gate does not read the clock.
HttpLogout(s, bearer) ==
  LET gate == JwtAuthGuard(LogoutRoute, bearer, now)
      userId == CurrentUserId(gate.user)
      c == [IdleCall EXCEPT !.op = "httpLogout", !.token = bearer,
                            !.credOk = JwtStrategyValidate(bearer, now) # <<>>]
  IN  /\ CanStart(s)
      /\ IF ~gate.admit
         THEN /\ calls' = [calls EXCEPT ![s] =
                   [c EXCEPT !.result = Err("Unauthorized", "Unauthorized")]]
              /\ UNCHANGED <<users, loggedOut>>
         ELSE IF userId # <<>> /\ RowExists(userId[1])
         THEN /\ users' = ClearRefreshTokenHash(userId[1])
              /\ loggedOut' = loggedOut \cup {userId[1]}
              /\ calls' = [calls EXCEPT ![s] =
                   [c EXCEPT !.invoked = <<"AuthService.logout">>,
                             !.userId = userId, !.result = Ok(<<>>)]]
         ELSE /\ UNCHANGED <<users, loggedOut>>
              /\ calls' = [calls EXCEPT ![s] =
                   [c EXCEPT !.invoked = <<"AuthService.logout">>,
                             !.userId = userId,
                             !.result = Err("Error", "Record to update not found")]]
      /\ ncalls' = ncalls + 1
      /\ UNCHANGED <<env, now, issued>>

(* ---------------------------------------------------------------------- *)
(* The routes behind the Auth Gate: GET /auth/me, GET /users/me and        *)
(* GET /users/:id                                                          *)
(* ---------------------------------------------------------------------- *)
Roles == {"CUSTOMER", "ADMIN"}

\* the decorators of AuthController.me, UsersController.getProfile and
\* UsersController.findOne; roles is <<>> when the route has no @Roles
AuthMeRoute ==
  [path |-> "GET /auth/me", public |-> FALSE,
   guards |-> <<"JwtAuthGuard">>, roles |-> <<>>]

\* GET /users/me marked @Public()
UsersMeRoute_Public ==
  [path |-> "GET /users/me", public |-> TRUE,
   guards |-> <<"JwtAuthGuard", "RolesGuard">>, roles |-> <<>>]

UsersMeRoute ==
  [path |-> "GET /users/me", public |-> FALSE,
   guards |-> <<"JwtAuthGuard", "RolesGuard">>, roles |-> <<>>]

\* GET /users/:id with @Roles(ADMIN) but without RolesGuard in @UseGuards
UsersFindOneRoute_NoRolesGuard ==
  [path |-> "GET /users/:id", public |-> FALSE,
   guards |-> <<"JwtAuthGuard">>, roles |-> <<{"ADMIN"}>>]

UsersFindOneRoute ==
  [path |-> "GET /users/:id", public |-> FALSE,
   guards |-> <<"JwtAuthGuard", "RolesGuard">>, roles |-> <<{"ADMIN"}>>]

\* routes of a test controller behind both guards: one without @Roles, one
\* with @Roles() and no argument, one with @Roles(ADMIN)
NoRolesRoute ==
  [path |-> "GET /test/no-roles", public |-> FALSE,
   guards |-> <<"JwtAuthGuard", "RolesGuard">>, roles |-> <<>>]
EmptyRolesRoute ==
  [path |-> "GET /test/empty-roles", public |-> FALSE,
   guards |-> <<"JwtAuthGuard", "RolesGuard">>, roles |-> <<{}>>]
AdminRolesRoute ==
  [path |-> "GET /test/admin", public |-> FALSE,
   guards |-> <<"JwtAuthGuard", "RolesGuard">>, roles |-> <<{"ADMIN"}>>]

\* ExtractJwt.fromAuthHeaderAsBearerToken: the token of an Authorization
\* header of scheme Bearer, <<>> for no header or another format
BearerToken(header) ==
  IF header = <<>> \/ header[1].scheme # "Bearer" THEN <<>>
  ELSE <<header[1].token>>

\* RolesGuard.canActivate taking an empty list of roles for no list
RolesGuard_EmptyIsNoRoles(route, user) ==
  IF route.roles = <<>> \/ route.roles[1] = {} THEN TRUE
  ELSE \E r \in route.roles[1] : user # <<>> /\ user[1].role = r

\* RolesGuard.canActivate on the identity the Auth Gate attached
RolesGuard(route, user) ==
  IF route.roles = <<>> THEN TRUE
  ELSE \E r \in route.roles[1] : user # <<>> /\ user[1].role = r

\* AuthController.me: request.user without its password
AuthMe(c, user) ==
  [c EXCEPT !.invoked = <<"AuthController.me">>, !.result = Ok(<<>>),
            !.body = <<[id |-> user[1].id, email |-> user[1].email,
                        role |-> user[1].role]>>]

\* UsersController.getProfile and findOne: getFindById(id), then the row
\* without its password; id is <<>> when the caller passes undefined
GetUserById(c, id) ==
  LET row == IF id = <<>> THEN <<>> ELSE FindById(id[1])
  IN  IF row = <<>>
      THEN [c EXCEPT !.invoked = <<"UsersController">>,
                     !.result = Err("BadRequest", "Not found user")]
      ELSE [c EXCEPT !.invoked = <<"UsersController">>, !.result = Ok(<<>>),
                     !.body = <<ExcludePassword(row[1])>>]

\* a GET of `route` carrying `header` (<<>>: no Authorization header), with
\* path parameter id (<<>> when the route has none), at time t
HttpGet(s, route, header, id, t) ==
  LET gate == JwtAuthGuard(route, BearerToken(header), t)
      c == [IdleCall EXCEPT !.op = "httpGet", !.route = route.path,
                            !.header = header, !.userId = id]
  IN  /\ CanStart(s)
      /\ At(t)
      /\ calls' = [calls EXCEPT ![s] =
            IF ~gate.admit
            THEN [c EXCEPT !.result = Err("Unauthorized", "Unauthorized")]
            ELSE IF /\ \E i \in 1..Len(route.guards) : route.guards[i] = "RolesGuard"
                    /\ ~RolesGuard(route, gate.user)
            THEN [c EXCEPT !.result = Err("Forbidden", "Forbidden resource")]
            ELSE IF route = AuthMeRoute THEN AuthMe(c, gate.user)
            ELSE IF route = UsersMeRoute
            THEN GetUserById(c, CurrentUserId(gate.user))
            ELSE IF route = UsersFindOneRoute THEN GetUserById(c, id)
            ELSE [c EXCEPT !.invoked = <<"TestController">>,
                           !.result = Ok(<<>>)]]
      /\ ncalls' = MaxCalls
      /\ UNCHANGED <<env, users, issued, loggedOut>>

(* ---------------------------------------------------------------------- *)
(* Environment                                                             *)
(* ---------------------------------------------------------------------- *)
\* an operator gives an account another role in the store
SetRole(id, role) ==
  /\ RowExists(id)
  /\ users[id].role # role
  /\ ncalls < MaxCalls
  /\ users' = [users EXCEPT ![id].role = role]
  /\ ncalls' = ncalls + 1
  /\ UNCHANGED <<env, now, issued, calls, loggedOut>>

\* an operator switches an account off or on in the store
SetActive(id, active) ==
  /\ RowExists(id)
  /\ users[id].isActive # active
  /\ ncalls < MaxCalls
  /\ users' = [users EXCEPT ![id].isActive = active]
  /\ ncalls' = ncalls + 1
  /\ UNCHANGED <<env, now, issued, calls, loggedOut>>

\* A row is deleted from the store (usersRepository.delete).  What matters
\* is what the calls in flight at that moment do next, so the deletion is
\* looked at as the last operation of a run (it uses up the budget).  The
\* register calls in flight must find ids left in IdOrder.
DeleteUser(id) ==
  /\ RowExists(id)
  /\ ncalls < MaxCalls
  /\ Cardinality(UsedIds)
       + Cardinality({s \in Slots : calls[s].op = "register"
                                      /\ calls[s].pc = "create"})
       <= Len(IdOrder)
  /\ users' = [i \in DOMAIN users \ {id} |-> users[i]]
  /\ ncalls' = MaxCalls
  /\ UNCHANGED <<env, now, issued, calls, loggedOut>>

\* tokens a client can present: every issued refresh token, the access token
\* of its pair (same claims, access secret), and a forged one
AccessTwin(rt) ==
  [rt EXCEPT !.sig = AccessSecret,
              !.exp = rt.iat + OrElse(ConfigGet("jwt.accessTokenExpiresIn"), AccessTTL)]
Presentable ==
  issued \cup {AccessTwin(rt) : rt \in issued} \cup {ForgedToken}

\* the access tokens issued so far: one with each refresh token
AccessTokensIssued == {AccessTwin(rt) : rt \in issued}

Next ==
  \/ \E id \in UserIds, active \in BOOLEAN : SetActive(id, active)
  \/ \E s \in Slots, u \in Usernames, p \in Passwords : LoginStart(s, u, p)
  \/ \E s \in Slots, t \in Time : LoginCheck(s, t)
  \/ \E s \in Slots : LoginWrite(s)
  \/ \E s \in Slots, rt \in Presentable, t \in Time : RefreshStart(s, rt, t)
  \/ \E s \in Slots, t \in Time : RefreshCheck(s, t)
  \/ \E s \in Slots : RefreshWrite(s)
  \/ \E s \in Slots, e \in Emails, u \in Usernames, p \in RegisterPasswords :
        RegisterStart(s, e, u, p)
  \/ \E s \in Slots, t \in Time : RegisterCreate(s, t)
  \/ \E s \in Slots : RegisterWrite(s)
  \/ \E s \in Slots, id \in UserIds : Logout(s, <<id>>)
  \/ \E s \in Slots, b \in {<<>>} \cup {<<tk>> : tk \in Presentable} :
        HttpLogout(s, b)

Spec == Init /\ [][Next]_vars

\* the requests of the read-only routes: the route and its path parameter
GetRequests ==
  {<<AuthMeRoute, <<>> >>, <<UsersMeRoute, <<>> >>}
    \cup {<<UsersFindOneRoute, <<id>> >> : id \in UserIds}

\* an access token of this deployment whose user is no longer in the store
OrphanToken ==
  JwtSign([sub |-> "gone", username |-> "carol", email |-> "c@x",
           role |-> DefaultRole], AccessSecret,
          OrElse(ConfigGet("jwt.accessTokenExpiresIn"), AccessTTL), 0)

\* the Authorization headers a client can send: none, a token with the
\* Bearer scheme, a token with no scheme
Headers ==
  {<<>>} \cup {<<[scheme |-> sc, token |-> tk]>> :
                 sc \in {"Bearer", ""}, tk \in Presentable \cup {OrphanToken}}

\* The read-only routes.  A GET writes nothing that a later step reads, so
\* the steps after it are those of a run without it: it is looked at as the
\* last request of a run (HttpGet uses up the budget of operations).
GateNext ==
  \/ \E id \in UserIds, active \in BOOLEAN : SetActive(id, active)
  \/ \E id \in UserIds, role \in Roles : SetRole(id, role)
  \/ \E s \in Slots, e \in Emails, u \in Usernames, p \in RegisterPasswords :
        RegisterStart(s, e, u, p)
  \/ \E s \in Slots, t \in Time : RegisterCreate(s, t)
  \/ \E s \in Slots : RegisterWrite(s)
  \/ \E s \in Slots, rq \in GetRequests, h \in Headers, t \in Time :
        HttpGet(s, rq[1], h, rq[2], t)

\* register issues tokens, the operator changes isActive and role, clients
\* call the routes behind the Auth Gate
GateSpec == Init /\ [][GateNext]_vars

\* a deployment started with any of the environments
ConfigInit ==
  /\ env \in Envs
  /\ users = <<>>
  /\ now = 0
  /\ issued = {}
  /\ calls = [s \in Slots |-> IdleCall]
  /\ ncalls = 0
  /\ loggedOut = {}

ConfigNext ==
  \/ \E s \in Slots, e \in Emails, u \in Usernames, p \in RegisterPasswords :
        RegisterStart(s, e, u, p)
  \/ \E s \in Slots, t \in Time : RegisterCreate(s, t)
  \/ \E s \in Slots : RegisterWrite(s)
  \/ \E s \in Slots, rt \in Presentable, t \in Time : RefreshStart(s, rt, t)
  \/ \E s \in Slots, t \in Time : RefreshCheck(s, t)
  \/ \E s \in Slots : RefreshWrite(s)
  \/ \E s \in Slots, h \in Headers, t \in Time :
        HttpGet(s, UsersMeRoute, h, <<>>, t)

\* register issues tokens under the configuration of the deployment, clients
\* present them to refresh and to a route behind the Auth Gate
ConfigSpec == ConfigInit /\ [][ConfigNext]_vars

FaultNext ==
  \/ \E id \in UserIds : DeleteUser(id)
  \/ \E s \in Slots, u \in Usernames, p \in RegisterPasswords :
        LoginStart(s, u, p)
  \/ \E s \in Slots, t \in Time : LoginCheck(s, t)
  \/ \E s \in Slots : LoginWrite(s)
  \/ \E s \in Slots, rt \in issued, t \in Time : RefreshStart(s, rt, t)
  \/ \E s \in Slots, t \in Time : RefreshCheck(s, t)
  \/ \E s \in Slots : RefreshWrite(s)
  \/ \E s \in Slots, e \in Emails, u \in Usernames, p \in RegisterPasswords :
        RegisterStart(s, e, u, p)
  \/ \E s \in Slots, t \in Time : RegisterCreate(s, t)
  \/ \E s \in Slots : RegisterWrite(s)
  \/ \E s \in Slots, id \in UserIds : Logout(s, <<id>>)

\* the four operations of AuthService while rows can disappear from the
\* store under the calls in flight
FaultSpec == Init /\ [][FaultNext]_vars

\* the state after register("a@x", "alice", "pw1") has completed at second 0
\* in an empty store: the row with its password hash and the hash of the
\* refresh token register returned
SessionInit ==
  /\ env = NoEnv
  /\ \E e \in {"a@x"}, u \in {"alice"} :
        LET row == NewUser(IdOrder[1], e, u, BcryptHash(PasswordString("pw1")))
            pair == GenerateTokenPair(ExcludePassword(row), 0)
        IN  /\ users = (row.id :>
                          [row EXCEPT !.refreshTokenHash =
                                         BcryptHash(JwtCompact(pair.refreshToken))])
            /\ issued = {pair.refreshToken}
  /\ now = 0
  /\ calls = [s \in Slots |-> IdleCall]
  /\ ncalls = 0
  /\ loggedOut = {}

SessionNext ==
  \/ \E id \in UserIds, role \in Roles : SetRole(id, role)
  \/ \E s \in Slots, e \in Emails, u \in Usernames, p \in RegisterPasswords :
        RegisterStart(s, e, u, p)
  \/ \E s \in Slots, t \in Time : RegisterCreate(s, t)
  \/ \E s \in Slots : RegisterWrite(s)
  \/ \E s \in Slots, u \in Usernames, p \in RegisterPasswords :
        LoginStart(s, u, p)
  \/ \E s \in Slots, t \in Time : LoginCheck(s, t)
  \/ \E s \in Slots : LoginWrite(s)
  \/ \E s \in Slots, rt \in issued, t \in Time : RefreshStart(s, rt, t)
  \/ \E s \in Slots, t \in Time : RefreshCheck(s, t)
  \/ \E s \in Slots : RefreshWrite(s)
  \/ \E s \in Slots, tk \in AccessTokensIssued, t \in Time :
        HttpGet(s, AuthMeRoute, <<[scheme |-> "Bearer", token |-> tk]>>, <<>>, t)

\* the session of a registered user: login, refresh, GET /auth/me with the
\* tokens they return, while the operator changes the role of the account
SessionSpec == SessionInit /\ [][SessionNext]_vars

RolesNext ==
  \/ \E id \in UserIds, role \in Roles : SetRole(id, role)
  \/ \E s \in Slots, e \in Emails, u \in Usernames, p \in RegisterPasswords :
        RegisterStart(s, e, u, p)
  \/ \E s \in Slots, t \in Time : RegisterCreate(s, t)
  \/ \E s \in Slots : RegisterWrite(s)
  \/ \E s \in Slots, t \in Time, h \in Headers,
        route \in {NoRolesRoute, EmptyRolesRoute, AdminRolesRoute} :
        HttpGet(s, route, h, <<>>, t)

\* users of either role call routes with each kind of @Roles declaration
RolesSpec == Init /\ [][RolesNext]_vars

\* properties a register body can carry besides those of RegisterDto
ExtraProperties ==
  { <<>>,
    [role |-> "ADMIN"],
    [role |-> "ADMIN", isActive |-> FALSE,
     refreshTokenHash |-> BcryptHash(JwtCompact(ForgedToken))] }

CreateNext ==
  \/ \E s \in Slots, e \in Emails, u \in Usernames, p \in RegisterPasswords,
        x \in ExtraProperties : RegisterStartWith(s, e, u, p, x)
  \/ \E s \in Slots, t \in Time : RegisterCreate(s, t)
  \/ \E s \in Slots : RegisterWrite(s)

\* register called with bodies that name columns RegisterDto does not have
CreateSpec == Init /\ [][CreateNext]_vars

(* ---------------------------------------------------------------------- *)
(* Vocabulary of the properties                                            *)
(* ---------------------------------------------------------------------- *)
\* a refresh call presenting tk, run on its own at time t, would return a pair
RefreshWouldSucceed(tk, t) ==
  /\ JwtVerify(tk, RefreshSecret, t)
  /\ RefreshChecks(FindById(tk.sub), tk)

\* tk is accepted by refresh at the present time or at some later time
Accepted(tk) == \E t \in Time : t >= now /\ RefreshWouldSucceed(tk, t)

\* this step starts a call of operation op in slot s
Started(s, op) ==
  /\ CanStart(s)
  /\ ncalls' = ncalls + 1
  /\ calls'[s].op = op
  /\ DOMAIN users \subseteq DOMAIN users'
  /\ \A id \in DOMAIN users : /\ users'[id].isActive = users[id].isActive
                                /\ users'[id].role = users[id].role

\* this step takes the call in slot s from position pc onward
Stepped(s, op, pc) ==
  /\ calls[s].op = op /\ calls[s].pc = pc
  /\ calls'[s].pc # pc

\* this step is the return of a successful refresh in slot s
RefreshReturned(s) ==
  /\ Stepped(s, "refresh", "write")
  /\ calls'[s].result.status = "ok"

(* ---------------------------------------------------------------------- *)
(* C1  Rotation: right after refresh(tokenA) has succeeded and returned a  *)
(* new refresh token tokenB, tokenA is no longer accepted by refresh, now  *)
(* or at any later time, although it has not expired.                      *)
(* ---------------------------------------------------------------------- *)
C1_OldTokenRejectedAfterRotation ==
  [][\A s \in Slots :
       (RefreshReturned(s)
          /\ calls'[s].result.tokens[1].refreshToken # calls[s].token[1])
       => ~(Accepted(calls[s].token[1]))']_vars

(* ---------------------------------------------------------------------- *)
(* C2  In every reachable state at most one of the refresh tokens ever     *)
(* issued to a user is accepted by refresh.                                *)
(* ---------------------------------------------------------------------- *)
C2_AtMostOneAcceptedToken ==
  \A id \in UserIds :
     Cardinality({tk \in issued : tk.sub = id /\ Accepted(tk)}) <= 1

(* ---------------------------------------------------------------------- *)
(* C3  After logout(userId) has completed, and until a later login of that *)
(* user succeeds, the user's refreshTokenHash is null and no refresh token *)
(* issued to the user is accepted by refresh.                              *)
(* ---------------------------------------------------------------------- *)
C3_LoggedOutStaysLoggedOut ==
  \A id \in loggedOut :
     /\ users[id].refreshTokenHash = NullHash
     /\ \A tk \in issued : tk.sub = id => ~Accepted(tk)

(* ---------------------------------------------------------------------- *)
(* C4  refresh returns a token pair only if the token verified against the *)
(* refresh secret and was unexpired, the user read by the call existed and *)
(* was active, and the user's stored hash was non-null and matched the     *)
(* token; a refresh that fails returns no token and writes no hash.        *)
(* ---------------------------------------------------------------------- *)
C4_RefreshOnlyWhenAllChecksPass ==
  [][\A s \in Slots :
       /\ (Started(s, "refresh") /\ calls'[s].pc # "done")
            => /\ calls'[s].token[1].sig = RefreshSecret
               /\ now' < calls'[s].token[1].exp
               /\ calls'[s].user = FindById(calls'[s].token[1].sub)
       /\ (Stepped(s, "refresh", "check") /\ calls'[s].pc # "done")
            => /\ calls[s].user # <<>>
               /\ calls[s].user[1].isActive
               /\ calls[s].user[1].refreshTokenHash # NullHash
               /\ calls[s].user[1].refreshTokenHash.pre
                    = Truncate(JwtCompact(calls[s].token[1]), BcryptMaxBytes)
       /\ ((Started(s, "refresh") \/ Stepped(s, "refresh", "check")
              \/ Stepped(s, "refresh", "write"))
             /\ calls'[s].pc = "done")
            => \/ /\ calls'[s].result.status = "ok"
                  /\ calls[s].op = "refresh" /\ calls[s].pc = "write"
               \/ /\ calls'[s].result.status = "Unauthorized"
                  /\ calls'[s].result.tokens = <<>>
                  /\ users' = users]_vars

\* a refresh has returned a pair
C4_Witness ==
  \E s \in Slots :
     /\ calls[s].op = "refresh" /\ calls[s].pc = "done"
     /\ calls[s].result.status = "ok"

(* ---------------------------------------------------------------------- *)
(* C5  When two refresh calls presenting the same token overlap and both   *)
(* return a pair, then once both have finished at most one of the two      *)
(* returned refresh tokens is accepted by refresh.                         *)
(* ---------------------------------------------------------------------- *)
C5_RaceLeavesOneAcceptedToken ==
  \A s1, s2 \in Slots :
     (/\ s1 # s2
      /\ calls[s1].op = "refresh" /\ calls[s2].op = "refresh"
      /\ calls[s1].pc = "done" /\ calls[s2].pc = "done"
      /\ calls[s1].result.status = "ok" /\ calls[s2].result.status = "ok"
      /\ calls[s1].token = calls[s2].token
      /\ calls[s1].result.tokens[1].refreshToken
           # calls[s2].result.tokens[1].refreshToken)
     => ~(/\ Accepted(calls[s1].result.tokens[1].refreshToken)
          /\ Accepted(calls[s2].result.tokens[1].refreshToken))

(* ---------------------------------------------------------------------- *)
(* C6  POST /auth/logout: a request without a valid access token gets 401  *)
(* and never reaches AuthService.logout, and whenever the handler calls    *)
(* AuthService.logout it passes the id of the authenticated user.          *)
(* ---------------------------------------------------------------------- *)
C6_LogoutRouteAuthenticated ==
  \A s \in Slots :
     (calls[s].op = "httpLogout" /\ calls[s].pc = "done")
     => /\ ~calls[s].credOk
             => /\ calls[s].result.status = "Unauthorized"
                /\ calls[s].invoked = <<>>
        /\ calls[s].invoked # <<>>
             => /\ calls[s].userId # <<>>
                /\ calls[s].userId[1] = calls[s].token[1].sub

\* the password a row was registered with
TruePassword(row) == row.password.pre[1].v

\* the claims of both tokens of pair are those of row
ClaimsOf(pair, row) ==
  \A tk \in {pair.accessToken, pair.refreshToken} :
     /\ tk.sub = row.id /\ tk.username = row.username
     /\ tk.email = row.email /\ tk.role = row.role

(* ---------------------------------------------------------------------- *)
(* C7  login of an existing active user with the correct password          *)
(* succeeds: it returns an access and a refresh token whose claims are the *)
(* user's id, username, email and role, and it stores the hash of the      *)
(* returned refresh token as the user's refreshTokenHash.                  *)
(* ---------------------------------------------------------------------- *)
C7_LoginIssuesAndStores ==
  [][\A s \in Slots :
       /\ (/\ Stepped(s, "login", "check")
           /\ calls[s].user # <<>>
           /\ calls[s].user[1].isActive
           /\ calls[s].password = TruePassword(calls[s].user[1]))
          => /\ calls'[s].pc = "write"
             /\ ClaimsOf(calls'[s].tokens[1], calls[s].user[1])
             /\ calls'[s].tokens[1].accessToken.sig = AccessSecret
             /\ calls'[s].tokens[1].refreshToken.sig = RefreshSecret
       /\ Stepped(s, "login", "write")
          => /\ calls'[s].result.status = "ok"
             /\ calls'[s].result.tokens = calls[s].tokens
             /\ users'[calls[s].user[1].id].refreshTokenHash
                  = BcryptHash(JwtCompact(calls[s].tokens[1].refreshToken))]_vars

\* a login has returned a pair for the user it names and the stored hash is
\* that of the returned refresh token
C7_Witness ==
  \E s \in Slots :
     /\ calls[s].op = "login" /\ calls[s].pc = "done"
     /\ calls[s].result.status = "ok"
     /\ LET rt == calls[s].result.tokens[1].refreshToken
        IN  /\ rt.sub \in DOMAIN users
            /\ rt.username = calls[s].username
            /\ users[rt.sub].refreshTokenHash = BcryptHash(JwtCompact(rt))

(* ---------------------------------------------------------------------- *)
(* C8  login of a user whose isActive is false, with the correct password, *)
(* fails with UnauthorizedException 'Account is inactive', issues no token *)
(* and leaves the user table (the refreshTokenHash included) unchanged.    *)
(* ---------------------------------------------------------------------- *)
C8_InactiveLoginRejected ==
  [][\A s \in Slots :
       (/\ Stepped(s, "login", "check")
        /\ calls[s].user # <<>>
        /\ ~calls[s].user[1].isActive
        /\ calls[s].password = TruePassword(calls[s].user[1]))
       => /\ calls'[s].pc = "done"
          /\ calls'[s].result = Err("Unauthorized", "Account is inactive")
          /\ users' = users
          /\ issued' = issued]_vars

\* a login with the correct password has been refused for an inactive user
C8_Witness ==
  \E s \in Slots :
     /\ calls[s].op = "login" /\ calls[s].pc = "done"
     /\ calls[s].result.msg = "Account is inactive"
     /\ \E id \in DOMAIN users :
          /\ users[id].username = calls[s].username
          /\ calls[s].password = TruePassword(users[id])

(* ---------------------------------------------------------------------- *)
(* C9  login with an unknown username and login with a wrong password both *)
(* fail with UnauthorizedException 'Invalid credentials'; this holds for a *)
(* wrong password on an inactive account too, which never yields 'Account  *)
(* is inactive'.                                                           *)
(* ---------------------------------------------------------------------- *)
C9_InvalidCredentialsUniform ==
  [][\A s \in Slots :
       (/\ Stepped(s, "login", "check")
        /\ \/ calls[s].user = <<>>
           \/ calls[s].password # TruePassword(calls[s].user[1]))
       => /\ calls'[s].pc = "done"
          /\ calls'[s].result = Err("Unauthorized", "Invalid credentials")
          /\ users' = users
          /\ issued' = issued]_vars

\* a login with a wrong password on an inactive account has been refused
\* with 'Invalid credentials'
C9_Witness ==
  \E s \in Slots :
     /\ calls[s].op = "login" /\ calls[s].pc = "done"
     /\ calls[s].result.msg = "Invalid credentials"
     /\ \E id \in DOMAIN users :
          /\ users[id].username = calls[s].username
          /\ ~users[id].isActive
          /\ calls[s].password # TruePassword(users[id])

(* ---------------------------------------------------------------------- *)
(* C10  register with an email or a username that an existing user has     *)
(* fails with a BadRequestException before any write: the user table is    *)
(* unchanged (no row created, no password or refresh hash persisted) and   *)
(* no token is issued.                                                     *)
(* ---------------------------------------------------------------------- *)
C10_DuplicateRegisterWritesNothing ==
  [][\A s \in Slots :
       (/\ Started(s, "register")
        /\ \E id \in DOMAIN users :
              \/ users[id].email = calls'[s].email
              \/ users[id].username = calls'[s].username)
       => /\ calls'[s].pc = "done"
          /\ calls'[s].result.status = "BadRequest"
          /\ calls'[s].result.msg \in {"Email is already registered",
                                       "Username is already taken"}
          /\ calls'[s].result.tokens = <<>>
          /\ users' = users
          /\ issued' = issued]_vars

\* a registration has been refused for a username already taken by a user
\* with another email
C10_Witness ==
  \E s \in Slots :
     /\ calls[s].op = "register" /\ calls[s].pc = "done"
     /\ calls[s].result.status = "BadRequest"
     /\ \E id \in DOMAIN users :
          /\ users[id].username = calls[s].username
          /\ users[id].email # calls[s].email
     /\ Cardinality(DOMAIN users) = 1

\* the violations a result of register names in its message
ViolationsReported(result) ==
  IF result.msg = "Email is already registered" THEN {"email"}
  ELSE IF result.msg = "Username is already taken" THEN {"username"}
  ELSE {}

\* this step starts a register call whose email and username are both taken
RegisterBothTaken(s) ==
  /\ Started(s, "register")
  /\ FindByEmail(calls'[s].email) # <<>>
  /\ FindByUsername(calls'[s].username) # <<>>

(* ---------------------------------------------------------------------- *)
(* C11  register called with an email and a username that are both taken   *)
(* fails reporting both violations, the email violation first.             *)
(* ---------------------------------------------------------------------- *)
C11_BothViolationsReported ==
  [][\A s \in Slots :
       RegisterBothTaken(s)
       => ViolationsReported(calls'[s].result) = {"email", "username"}]_vars

\* C11 as the code has it: register called with an email and a username that
\* are both taken fails with the one BadRequestException 'Email is already
\* registered'; the username violation is not reported.
C11_OnlyEmailReported ==
  [][\A s \in Slots :
       RegisterBothTaken(s)
       => /\ calls'[s].pc = "done"
          /\ calls'[s].result = Err("BadRequest", "Email is already registered")
          /\ ViolationsReported(calls'[s].result) = {"email"}]_vars

\* a registration whose email and username are both taken has been refused
C11_Witness ==
  \E s \in Slots :
     /\ calls[s].op = "register" /\ calls[s].pc = "done"
     /\ calls[s].result.status = "BadRequest"
     /\ FindByEmail(calls[s].email) # <<>>
     /\ FindByUsername(calls[s].username) # <<>>

\* the call in slot s is a refresh presented with an issued access token
RefreshWithAccessToken(s) ==
  calls[s].op = "refresh" /\ calls[s].token[1] \in AccessTokensIssued

\* the call in slot s is a GET behind the Auth Gate whose bearer token is an
\* issued refresh token
GetWithRefreshToken(s) ==
  /\ calls[s].op = "httpGet"
  /\ BearerToken(calls[s].header) # <<>>
  /\ BearerToken(calls[s].header)[1] \in issued

\* neither kind of token has been taken for the other
KindsKeptApart ==
  \A s \in Slots :
     /\ RefreshWithAccessToken(s)
          => /\ calls[s].pc = "done"
             /\ calls[s].result = Err("Unauthorized", "Invalid refresh token")
     /\ GetWithRefreshToken(s)
          => /\ calls[s].result = Err("Unauthorized", "Unauthorized")
             /\ calls[s].invoked = <<>>

(* ---------------------------------------------------------------------- *)
(* C12  An access token is never accepted where a refresh token is         *)
(* required, and vice versa: refresh rejects every token issued as an      *)
(* access token, and the Auth Gate rejects every refresh token presented   *)
(* as a bearer access token.                                               *)
(* ---------------------------------------------------------------------- *)
C12_TokenKindsNeverInterchanged == KindsKeptApart

\* C12 for a deployment whose two secrets differ: refresh rejects every
\* token issued as an access token, and the Auth Gate rejects every refresh
\* token presented as a bearer access token.
C12_KindsApartWhenSecretsDiffer ==
  AccessSecret # RefreshSecret => KindsKeptApart

\* under distinct secrets, a refresh presented with an issued access token
\* and a GET presenting an issued refresh token have both been refused
C12_Witness ==
  /\ AccessSecret # RefreshSecret
  /\ \E s1, s2 \in Slots :
        /\ RefreshWithAccessToken(s1)
        /\ calls[s1].pc = "done"
        /\ GetWithRefreshToken(s2)
        /\ calls[s2].result.status = "Unauthorized"

\* the lifetimes of the tokens of pair are those of the configuration
ConfiguredLifetimes(pair) ==
  /\ pair.accessToken.exp = pair.accessToken.iat + JwtConfig.expiresIn
  /\ pair.refreshToken.exp = pair.refreshToken.iat + JwtConfig.refreshExpiresIn

(* ---------------------------------------------------------------------- *)
(* C13  The access token's expiry equals the access TTL supplied by        *)
(* configuration and the refresh token's expiry equals the refresh TTL     *)
(* supplied by configuration; the defaults (15 minutes, 7 days) apply only *)
(* when no TTL is configured.                                              *)
(* ---------------------------------------------------------------------- *)
C13_ExpiryIsConfiguredTTL ==
  \A s \in Slots :
     calls[s].result.status = "ok" /\ calls[s].result.tokens # <<>>
     => ConfiguredLifetimes(calls[s].result.tokens[1])

(* ---------------------------------------------------------------------- *)
(* C14  With an integer clock, a refresh token presented to refresh at a   *)
(* time equal to its expiry time (now = exp) is rejected as expired; a     *)
(* refresh token is accepted only while now < exp.                         *)
(* ---------------------------------------------------------------------- *)
C14_RejectedAtExpiry ==
  [][\A s \in Slots :
       Started(s, "refresh")
       => /\ now' >= calls'[s].token[1].exp
               => /\ calls'[s].pc = "done"
                  /\ calls'[s].result = Err("Unauthorized", "Invalid refresh token")
                  /\ users' = users
          /\ calls'[s].pc # "done" => now' < calls'[s].token[1].exp]_vars

\* a refresh token that passes every other check has been presented at the
\* second of its expiry and refused
C14_Witness ==
  \E s \in Slots :
     /\ calls[s].op = "refresh" /\ calls[s].pc = "done"
     /\ calls[s].token[1] \in issued
     /\ now = calls[s].token[1].exp
     /\ calls[s].result.status = "Unauthorized"
     /\ RefreshChecks(FindById(calls[s].token[1].sub), calls[s].token[1])

\* this step serves a GET in slot s
GetServed(s) ==
  /\ CanStart(s)
  /\ ncalls' = MaxCalls
  /\ calls'[s].op = "httpGet"

\* the route of a path
RouteOf(path) == CHOOSE r \in {rq[1] : rq \in GetRequests} : r.path = path

\* the response to the GET in slot s after this step is 401 and no handler ran
Rejected401(s) ==
  /\ calls'[s].result = Err("Unauthorized", "Unauthorized")
  /\ calls'[s].invoked = <<>>
  /\ calls'[s].body = <<>>

(* ---------------------------------------------------------------------- *)
(* C15  A request to a non-public route that carries no Authorization      *)
(* header, an Authorization header without the Bearer prefix, or a bearer  *)
(* token that fails verification against the access secret is rejected     *)
(* with 401, and the route handler is never executed for it.  (GET         *)
(* /auth/me, GET /users/me and GET /users/:id are the non-public routes.)  *)
(* ---------------------------------------------------------------------- *)
C15_UnauthenticatedRejected ==
  [][\A s \in Slots :
       (/\ GetServed(s)
        /\ \/ calls'[s].header = <<>>
           \/ calls'[s].header[1].scheme # "Bearer"
           \/ ~JwtVerify(calls'[s].header[1].token, AccessSecret, now'))
       => Rejected401(s)]_vars

\* an unexpired access token of an active user has been sent without the
\* Bearer prefix and the request has been refused
C15_Witness ==
  \E s \in Slots :
     /\ calls[s].op = "httpGet"
     /\ calls[s].header # <<>>
     /\ calls[s].header[1].scheme # "Bearer"
     /\ calls[s].header[1].token \in AccessTokensIssued
     /\ JwtStrategyValidate(<<calls[s].header[1].token>>, now) # <<>>
     /\ calls[s].result.status = "Unauthorized"

(* ---------------------------------------------------------------------- *)
(* C16  A request with a validly signed, unexpired access token is         *)
(* rejected with 401 when, at the time of the request, the user named by   *)
(* the token's subject does not exist or has isActive false; so once a     *)
(* user is deactivated, every access token issued to them earlier stops    *)
(* being admitted.                                                         *)
(* ---------------------------------------------------------------------- *)
C16_AbsentOrInactiveRejected ==
  [][\A s \in Slots :
       (/\ GetServed(s)
        /\ BearerToken(calls'[s].header) # <<>>
        /\ JwtVerify(BearerToken(calls'[s].header)[1], AccessSecret, now')
        /\ LET user == FindById(BearerToken(calls'[s].header)[1].sub)
           IN  user = <<>> \/ ~user[1].isActive)
       => Rejected401(s)]_vars

\* an unexpired access token issued to a user who has been deactivated since
\* has been presented and refused
C16_Witness ==
  \E s \in Slots :
     /\ calls[s].op = "httpGet"
     /\ BearerToken(calls[s].header) # <<>>
     /\ LET tk == BearerToken(calls[s].header)[1]
        IN  /\ tk \in AccessTokensIssued
            /\ JwtVerify(tk, AccessSecret, now)
            /\ ~users[tk.sub].isActive
     /\ calls[s].result.status = "Unauthorized"

(* ---------------------------------------------------------------------- *)
(* C17  On a route that declares required roles, an authenticated identity *)
(* is admitted exactly when its role is one of the declared roles and is   *)
(* otherwise rejected with 403; on a route that declares no roles, every   *)
(* authenticated identity is admitted.                                     *)
(* ---------------------------------------------------------------------- *)
C17_RolesDecideAdmission ==
  [][\A s \in Slots :
       (/\ GetServed(s)
        /\ JwtStrategyValidate(BearerToken(calls'[s].header), now') # <<>>)
       => LET route == RouteOf(calls'[s].route)
              role == users[BearerToken(calls'[s].header)[1].sub].role
              admitted == calls'[s].invoked # <<>>
          IN  /\ route.roles # <<>>
                   => /\ admitted <=> role \in route.roles[1]
                      /\ ~admitted => calls'[s].result.status = "Forbidden"
              /\ route.roles = <<>> => admitted]_vars

\* GET /users/:id has been served for a user who is an ADMIN in the store
\* on a token issued while the user was a CUSTOMER
C17_Witness ==
  \E s \in Slots :
     /\ calls[s].op = "httpGet"
     /\ calls[s].route = "GET /users/:id"
     /\ calls[s].invoked # <<>>
     /\ LET tk == BearerToken(calls[s].header)[1]
        IN  tk.role = "CUSTOMER" /\ users[tk.sub].role = "ADMIN"

(* ---------------------------------------------------------------------- *)
(* C18  No response body of any endpoint contains a user's password hash   *)
(* or refreshTokenHash, whatever user record the persistence layer         *)
(* returns.                                                                *)
(* ---------------------------------------------------------------------- *)
C18_NoHashInResponse ==
  \A s \in Slots :
     calls[s].body # <<>>
     => /\ "password" \notin DOMAIN calls[s].body[1]
        /\ "refreshTokenHash" \notin DOMAIN calls[s].body[1]

(* ---------------------------------------------------------------------- *)
(* C19  In every reachable state the value persisted as a user's           *)
(* refreshTokenHash is either null or a one-way hash of a refresh token    *)
(* issued to that user, and the persisted password is a hash of the        *)
(* registered password; neither a plaintext refresh token nor a plaintext  *)
(* password is ever written to the store.                                  *)
(* ---------------------------------------------------------------------- *)
C19_OnlyHashesPersisted ==
  \A id \in DOMAIN users :
     /\ \/ users[id].refreshTokenHash = NullHash
        \/ \E tk \in issued :
              /\ tk.sub = id
              /\ users[id].refreshTokenHash = BcryptHash(JwtCompact(tk))
     /\ \E p \in RegisterPasswords :
           users[id].password = BcryptHash(PasswordString(p))

\* a user has a stored refresh-token hash
C19_Witness ==
  \E id \in DOMAIN users :
     /\ users[id].refreshTokenHash # NullHash
     /\ \E tk \in issued : tk.sub = id

(* ---------------------------------------------------------------------- *)
(* C20  Every failing refresh call (malformed, wrongly signed or expired   *)
(* token; unknown or inactive user; null or non-matching stored hash)      *)
(* fails with one and the same UnauthorizedException 'Invalid refresh      *)
(* token', so the caller cannot tell which check failed.                   *)
(* ---------------------------------------------------------------------- *)
C20_RefreshFailuresUniform ==
  [][\A s \in Slots :
       (/\ \/ Started(s, "refresh")
           \/ Stepped(s, "refresh", "check")
           \/ Stepped(s, "refresh", "write")
        /\ calls'[s].pc = "done"
        /\ calls'[s].result.status # "ok")
       => calls'[s].result = Err("Unauthorized", "Invalid refresh token")]_vars

\* two refresh calls have failed, one on the signature of a forged token and
\* one on a later check of a properly signed, unexpired token, with the same
\* exception
C20_Witness ==
  \E s1, s2 \in Slots :
     /\ calls[s1].op = "refresh" /\ calls[s1].pc = "done"
     /\ calls[s2].op = "refresh" /\ calls[s2].pc = "done"
     /\ calls[s1].token[1].sig # RefreshSecret
     /\ calls[s2].token[1] \in issued
     /\ now < calls[s2].token[1].exp
     /\ calls[s1].result.status # "ok"
     /\ calls[s1].result = calls[s2].result
\* this step is the write of the call of operation op in slot s, and the
\* row it updates is no longer in the store
WriteOnMissingRow(s, op) ==
  /\ Stepped(s, op, "write")
  /\ ~RowExists(calls[s].user[1].id)

\* the error usersRepository.update throws for a row that does not exist
PersistenceError == Err("Error", "Record to update not found")

(* ---------------------------------------------------------------------- *)
(* C21  Only token and authentication failures of refresh are translated   *)
(* into 'Invalid refresh token'; any other error raised during login,      *)
(* register, refresh or logout (such as a persistence failure while        *)
(* storing the new refresh hash) reaches the caller unchanged.             *)
(* ---------------------------------------------------------------------- *)
C21_OtherErrorsPropagate ==
  [][\A s \in Slots :
       /\ \A op \in {"login", "register", "refresh"} :
             WriteOnMissingRow(s, op) => calls'[s].result = PersistenceError
       /\ (Started(s, "logout") /\ ~RowExists(calls'[s].userId[1]))
             => calls'[s].result = PersistenceError]_vars

(* ---------------------------------------------------------------------- *)
(* C22  logout(userId) has no failure mode, and a logout called again      *)
(* right after a logout of the same user is a no-op: it raises no error    *)
(* and leaves the state as the first call left it (refreshTokenHash null,  *)
(* everything else unchanged).                                             *)
(* ---------------------------------------------------------------------- *)
C22_LogoutNeverFailsIdempotent ==
  [][\A s \in Slots :
       Started(s, "logout")
       => /\ calls'[s].result.status = "ok"
          /\ users'[calls'[s].userId[1]].refreshTokenHash = NullHash
          /\ (/\ calls'[s].userId[1] \in loggedOut
              /\ users[calls'[s].userId[1]].refreshTokenHash = NullHash)
             => users' = users]_vars

\* this step is the one in which the call in slot s generates its token pair
PairGenerated(s) ==
  /\ \/ Stepped(s, "login", "check")
     \/ Stepped(s, "refresh", "check")
     \/ Stepped(s, "register", "create")
  /\ calls'[s].pc = "write"

\* the claims generateTokenPair is given with a user
IdentityClaims(user) ==
  [sub |-> user.id, username |-> user.username, email |-> user.email,
   role |-> user.role]

\* the claims among the fields of a payload
ClaimsIn(payload) ==
  [sub |-> payload.sub, username |-> payload.username,
   email |-> payload.email, role |-> payload.role]

MeAfterRefresh(s) ==
  /\ GetServed(s)
  /\ calls'[s].route = AuthMeRoute.path
  /\ calls[s].op = "refresh" /\ calls[s].result.status = "ok"
  /\ BearerToken(calls'[s].header)
       = <<calls[s].result.tokens[1].accessToken>>
  /\ calls[s].result.tokens[1].accessToken.username = "alice"
  /\ JwtVerify(calls[s].result.tokens[1].accessToken, AccessSecret, now')

(* ---------------------------------------------------------------------- *)
(* C24  After register of alice, login as alice and a refresh with a       *)
(* refresh token of that session, a GET /auth/me carrying the access token *)
(* the refresh returned is admitted and returns alice's identity, with     *)
(* username equal to 'alice' and with no password field.  (Stated for      *)
(* every successful refresh of alice's session, the one that follows a     *)
(* login included.)                                                        *)
(* ---------------------------------------------------------------------- *)
C24_MeReturnsAliceWithoutPassword ==
  [][\A s \in Slots :
       MeAfterRefresh(s)
       => /\ calls'[s].invoked # <<>>
          /\ calls'[s].result.status = "ok"
          /\ calls'[s].body # <<>>
          /\ "password" \notin DOMAIN calls'[s].body[1]
          /\ "username" \in DOMAIN calls'[s].body[1]
          /\ calls'[s].body[1].username = "alice"]_vars

(* ---------------------------------------------------------------------- *)
(* C25  When the declared roles of a route are the empty list (@Roles()    *)
(* with no argument), RolesGuard.canActivate returns false for every       *)
(* authenticated identity, whatever its role: the request is answered 403  *)
(* and the handler does not run.                                           *)
(* ---------------------------------------------------------------------- *)
C25_EmptyRolesAdmitNobody ==
  [][\A s \in Slots :
       (/\ GetServed(s)
        /\ calls'[s].route = EmptyRolesRoute.path
        /\ JwtStrategyValidate(BearerToken(calls'[s].header), now') # <<>>)
       => /\ ~RolesGuard(EmptyRolesRoute,
                         JwtStrategyValidate(BearerToken(calls'[s].header), now'))
          /\ calls'[s].result = Err("Forbidden", "Forbidden resource")
          /\ calls'[s].invoked = <<>>]_vars

\* an authenticated ADMIN has been refused on the route with @Roles()
C25_Witness ==
  \E s \in Slots :
     /\ calls[s].op = "httpGet"
     /\ calls[s].route = EmptyRolesRoute.path
     /\ calls[s].result.status = "Forbidden"
     /\ LET user == JwtStrategyValidate(BearerToken(calls[s].header), now)
        IN  user # <<>> /\ user[1].role = "ADMIN"

\* this step is the last one of a refresh in slot s that has passed its
\* checks, and a logout of its user has completed while it was in flight
\* (the user is logged out and the call is past the hash check)
RefreshEndsAfterLogout(s) ==
  /\ Stepped(s, "refresh", "write")
  /\ calls[s].user[1].id \in loggedOut

(* ---------------------------------------------------------------------- *)
(* C26  When a logout of a user interleaves with a refresh in flight for   *)
(* the same user, then once both have completed the refreshTokenHash of    *)
(* the user is null and no refresh token of the user is accepted: a        *)
(* refresh that passed its hash check before the write of the logout does  *)
(* not re-establish a stored hash after it.                                *)
(* ---------------------------------------------------------------------- *)
C26_LogoutWinsOverRefreshInFlight ==
  [][\A s \in Slots :
       RefreshEndsAfterLogout(s)
       => /\ users'[calls[s].user[1].id].refreshTokenHash = NullHash
          /\ \A tk \in issued :
                tk.sub = calls[s].user[1].id => ~(Accepted(tk))']_vars

\* the results of a register call refused as a duplicate when no other
\* register call is in flight
SequentialConflicts ==
  {Err("BadRequest", "Email is already registered"),
   Err("BadRequest", "Username is already taken")}

\* this step is the createUser step of the register call in slot s, and a
\* register call that overlapped it has created a row with its email or its
\* username since it looked them up
RegisterLostRace(s) ==
  /\ Stepped(s, "register", "create")
  /\ UniqueViolation(calls[s].email, calls[s].username)

(* ---------------------------------------------------------------------- *)
(* C27  Under any interleaving of two concurrent register calls with the   *)
(* same email (or the same username), at most one user record is created,  *)
(* exactly one call returns a token pair, and the other call fails with    *)
(* the same conflict error as a sequential duplicate registration.         *)
(* ---------------------------------------------------------------------- *)
C27_ConcurrentDuplicateSameConflict ==
  [][\A s \in Slots :
       /\ RegisterLostRace(s)
            => /\ users' = users
               /\ calls'[s].pc = "done"
               /\ calls'[s].result.tokens = <<>>
               /\ calls'[s].result \in SequentialConflicts
       /\ (Stepped(s, "register", "create") /\ ~RegisterLostRace(s))
            => /\ calls'[s].pc = "write"
               /\ DOMAIN users' = DOMAIN users \cup {calls'[s].user[1].id}]_vars

(* ---------------------------------------------------------------------- *)
(* C28  The stored-hash comparison of refresh depends on the whole of the  *)
(* presented token: for any two distinct refresh tokens issued to the same *)
(* user (same claims, other issue and expiry time and signature), the hash *)
(* that setRefreshTokenHash stores for one of them does not match the      *)
(* other.                                                                  *)
(* ---------------------------------------------------------------------- *)
C28_HashTellsTokensApart ==
  \A tk1, tk2 \in issued :
     (tk1 # tk2 /\ tk1.sub = tk2.sub)
     => ~BcryptCompare(JwtCompact(tk2), BcryptHash(JwtCompact(tk1)))

(* ---------------------------------------------------------------------- *)
(* C29  register persists only email, username and the hashed password     *)
(* (and firstName, lastName) taken from its input: no register input sets  *)
(* the role, isActive or refreshTokenHash of the created user, so every    *)
(* user created through register has the default role.                     *)
(* ---------------------------------------------------------------------- *)
C29_RegisterSetsNoPrivilegedColumn ==
  [][\A s \in Slots :
       (Stepped(s, "register", "create") /\ calls'[s].pc = "write")
       => LET row == calls'[s].user[1]
          IN  /\ users' = (row.id :> row) @@ users
              /\ row.id \notin DOMAIN users
              /\ row.role = DefaultRole
              /\ row.isActive
              /\ row.refreshTokenHash = NullHash
              /\ row.email = calls[s].email
              /\ row.username = calls[s].username
              /\ row.password = BcryptHash(PasswordString(calls[s].password))]_vars

\* a register whose body named role ADMIN, isActive false and a refresh
\* hash has returned, and its user is an active CUSTOMER
C29_Witness ==
  \E s \in Slots :
     /\ calls[s].op = "register" /\ calls[s].pc = "done"
     /\ calls[s].result.status = "ok"
     /\ DOMAIN calls[s].extra = {"role", "isActive", "refreshTokenHash"}
     /\ \E id \in DOMAIN users :
          /\ users[id].username = calls[s].username
          /\ users[id].role = DefaultRole
          /\ users[id].isActive

(* ---------------------------------------------------------------------- *)
(* C30  The pair a successful refresh returns carries the username, email  *)
(* and role persisted for the user, not the claims of the presented        *)
(* token: refresh loads the row of the subject from the store and makes    *)
(* the pair from that row, so a refresh called after the role of the user  *)
(* was changed in the store returns tokens whose role claim is the new     *)
(* role.                                                                   *)
(* ---------------------------------------------------------------------- *)
C30_RefreshCarriesPersistedClaims ==
  [][\A s \in Slots :
       /\ (Started(s, "refresh") /\ calls'[s].pc # "done")
            => /\ calls'[s].user # <<>>
               /\ calls'[s].user[1] = users[calls'[s].token[1].sub]
       /\ (Stepped(s, "refresh", "check") /\ calls'[s].pc = "write")
            => ClaimsOf(calls'[s].tokens[1], calls[s].user[1])
       /\ RefreshReturned(s)
            => calls'[s].result.tokens = calls[s].tokens]_vars

\* a refresh presented with a token whose role claim is CUSTOMER has
\* returned tokens whose role claim is ADMIN, the role in the store
C30_Witness ==
  \E s \in Slots :
     /\ calls[s].op = "refresh" /\ calls[s].pc = "done"
     /\ calls[s].result.status = "ok"
     /\ calls[s].token[1].role = "CUSTOMER"
     /\ calls[s].result.tokens[1].accessToken.role = "ADMIN"
     /\ calls[s].result.tokens[1].refreshToken.role = "ADMIN"
     /\ users[calls[s].token[1].sub].role = "ADMIN"
====
